---------------------------- MODULE Spec2Model ----------------------------
(***************************************************************************)
(* Log analyzer for KOTS / Helm installations.                             *)
(*                                                                         *)
(*   model_loader.py : extract_error_context, identify_patterns,           *)
(*                     get_next_steps, analyze_log                         *)
(*   api_server.py   : get_journalctl_logs, get_pod_logs and the four      *)
(*                     /analyze endpoints                                  *)
(*                                                                         *)
(* Python strings whose characters the code inspects (log text, root-cause *)
(* labels) are sequences of one-character strings.  Strings the code only  *)
(* passes around (file names, remediation steps, source names) are TLA+    *)
(* strings.                                                                *)
(***************************************************************************)
EXTENDS Integers, Sequences, FiniteSets, TLC

VARIABLES
  arg,       \* model_loader: the argument the function under test is given
  ret,       \* model_loader: the last call, [fn, clf, value]
  env,       \* api_server: log sources on disk, journalctl, the classifier
  request,   \* api_server: the request being served
  response   \* api_server: its HTTP response, once served

vars == <<arg, ret, env, request, response>>

----------------------------------------------------------------------------
(* Characters and Python string primitives                                 *)

NL == "\n"
CR == "\r"

UpperCase == <<"A","B","C","D","E","F","G","H","I","J","K","L","M","N","O","P","Q","R","S","T","U","V","W","X","Y","Z">>
LowerCase == <<"a","b","c","d","e","f","g","h","i","j","k","l","m","n","o","p","q","r","s","t","u","v","w","x","y","z">>

\* str.isspace() on the ASCII range
Whitespace == {" ", "\t", "\n", "\r", "\f"}

Min(a, b) == IF a < b THEN a ELSE b
Max(a, b) == IF a > b THEN a ELSE b

LowerChar(c) ==
  IF \E i \in 1..Len(UpperCase) : UpperCase[i] = c
  THEN LowerCase[CHOOSE i \in 1..Len(UpperCase) : UpperCase[i] = c]
  ELSE c

\* str.lower()
lower(s) == [i \in 1..Len(s) |-> LowerChar(s[i])]

\* `sub in s`
Contains(sub, s) ==
  \E p \in 1..(Len(s) - Len(sub) + 1) : SubSeq(s, p, p + Len(sub) - 1) = sub

\* str.strip()
strip(s) ==
  LET keep == {i \in 1..Len(s) : s[i] \notin Whitespace}
  IN  IF keep = {} THEN <<>>
      ELSE SubSeq(s, CHOOSE i \in keep : \A j \in keep : i <= j,
                     CHOOSE i \in keep : \A j \in keep : i >= j)

\* "\n".join(lines)
RECURSIVE join(_)
join(lines) ==
  IF lines = <<>> THEN <<>>
  ELSE IF Len(lines) = 1 THEN lines[1]
  ELSE lines[1] \o <<NL>> \o join(Tail(lines))

\* the first position at or after i whose character is (is not) a line
\* delimiter, or one past the end of the text
FirstDelim(text, i) ==
  LET at == {j \in i..Len(text) : text[j] \in {NL, CR}}
  IN  IF at = {} THEN Len(text) + 1 ELSE CHOOSE j \in at : \A k \in at : j <= k

FirstNonDelim(text, i) ==
  LET at == {j \in i..Len(text) : text[j] \notin {NL, CR}}
  IN  IF at = {} THEN Len(text) + 1 ELSE CHOOSE j \in at : \A k \in at : j <= k

\* re.split(r'[\n\r]+', text) from the piece that starts at i: the pieces
\* between maximal runs of \n and \r, an empty piece where the text starts or
\* ends with a run.
RECURSIVE re_split_from(_, _)
re_split_from(text, i) ==
  LET e == FirstDelim(text, i)
  IN  IF e > Len(text) THEN <<SubSeq(text, i, Len(text))>>
      ELSE <<SubSeq(text, i, e - 1)>> \o re_split_from(text, FirstNonDelim(text, e))

re_split(text) == re_split_from(text, 1)

\* The end of the line that position `from` lies on: the first \n at or after
\* it, or one past the end of the text.
LineEnd(text, from) ==
  LET nls == {j \in from..Len(text) : text[j] = NL}
  IN  IF nls = {} THEN Len(text) + 1 ELSE CHOOSE j \in nls : \A k \in nls : j <= k

\* One alternative of a pattern is literal[1] .* literal[2] .* ... : the
\* literals occur in this order, without overlap, and "." does not match \n,
\* so a literal after a .* starts before the end of the line.
RECURSIVE MatchAlt(_, _, _, _)
MatchAlt(segs, k, text, from) ==
  IF k > Len(segs) THEN TRUE
  ELSE LET n    == Len(segs[k])
           last == IF k = 1 THEN Len(text) ELSE LineEnd(text, from)
       IN  \E p \in from..(Min(last, Len(text) - n + 1)) :
             /\ text[p] = segs[k][1]
             /\ SubSeq(text, p, p + n - 1) = segs[k]
             /\ MatchAlt(segs, k + 1, text, p + n)

\* re.search(pattern, text) is not None
re_search(pattern, text) ==
  \E a \in 1..Len(pattern) : MatchAlt(pattern[a], 1, text, 1)

----------------------------------------------------------------------------
(* model_loader.py                                                         *)

ERROR_PATTERNS ==
  <<
    \* 1: r"helm.*release.*failed": "Helm release installation or upgrade failed"
    [pattern |-> << << <<"h","e","l","m">>, <<"r","e","l","e","a","s","e">>, <<"f","a","i","l","e","d">> >> >>,
     cause |-> <<"H","e","l","m"," ","r","e","l","e","a","s","e"," ","i","n","s","t","a","l","l","a","t","i","o","n"," ","o","r"," ","u","p","g","r","a","d","e"," ","f","a","i","l","e","d">>],
    \* 2: r"chart.*requires.*kubernetes.*version": "Kubernetes version compatibility issue"
    [pattern |-> << << <<"c","h","a","r","t">>, <<"r","e","q","u","i","r","e","s">>, <<"k","u","b","e","r","n","e","t","e","s">>, <<"v","e","r","s","i","o","n">> >> >>,
     cause |-> <<"K","u","b","e","r","n","e","t","e","s"," ","v","e","r","s","i","o","n"," ","c","o","m","p","a","t","i","b","i","l","i","t","y"," ","i","s","s","u","e">>],
    \* 3: r"failed.*to.*install.*chart": "Chart installation failure"
    [pattern |-> << << <<"f","a","i","l","e","d">>, <<"t","o">>, <<"i","n","s","t","a","l","l">>, <<"c","h","a","r","t">> >> >>,
     cause |-> <<"C","h","a","r","t"," ","i","n","s","t","a","l","l","a","t","i","o","n"," ","f","a","i","l","u","r","e">>],
    \* 4: r"helm.*upgrade.*failed": "Helm upgrade failure"
    [pattern |-> << << <<"h","e","l","m">>, <<"u","p","g","r","a","d","e">>, <<"f","a","i","l","e","d">> >> >>,
     cause |-> <<"H","e","l","m"," ","u","p","g","r","a","d","e"," ","f","a","i","l","u","r","e">>],
    \* 5: r"chart.*not.*found": "Chart not found in repository"
    [pattern |-> << << <<"c","h","a","r","t">>, <<"n","o","t">>, <<"f","o","u","n","d">> >> >>,
     cause |-> <<"C","h","a","r","t"," ","n","o","t"," ","f","o","u","n","d"," ","i","n"," ","r","e","p","o","s","i","t","o","r","y">>],
    \* 6: r"kots.*install.*failed": "KOTS installation failure"
    [pattern |-> << << <<"k","o","t","s">>, <<"i","n","s","t","a","l","l">>, <<"f","a","i","l","e","d">> >> >>,
     cause |-> <<"K","O","T","S"," ","i","n","s","t","a","l","l","a","t","i","o","n"," ","f","a","i","l","u","r","e">>],
    \* 7: r"kots.*upgrade.*failed": "KOTS upgrade failure"
    [pattern |-> << << <<"k","o","t","s">>, <<"u","p","g","r","a","d","e">>, <<"f","a","i","l","e","d">> >> >>,
     cause |-> <<"K","O","T","S"," ","u","p","g","r","a","d","e"," ","f","a","i","l","u","r","e">>],
    \* 8: r"kots.*version.*incompatible": "KOTS version compatibility issue"
    [pattern |-> << << <<"k","o","t","s">>, <<"v","e","r","s","i","o","n">>, <<"i","n","c","o","m","p","a","t","i","b","l","e">> >> >>,
     cause |-> <<"K","O","T","S"," ","v","e","r","s","i","o","n"," ","c","o","m","p","a","t","i","b","i","l","i","t","y"," ","i","s","s","u","e">>],
    \* 9: r"kots.*config.*invalid": "Invalid KOTS configuration"
    [pattern |-> << << <<"k","o","t","s">>, <<"c","o","n","f","i","g">>, <<"i","n","v","a","l","i","d">> >> >>,
     cause |-> <<"I","n","v","a","l","i","d"," ","K","O","T","S"," ","c","o","n","f","i","g","u","r","a","t","i","o","n">>],
    \* 10: r"kots.*license.*invalid": "Invalid or expired KOTS license"
    [pattern |-> << << <<"k","o","t","s">>, <<"l","i","c","e","n","s","e">>, <<"i","n","v","a","l","i","d">> >> >>,
     cause |-> <<"I","n","v","a","l","i","d"," ","o","r"," ","e","x","p","i","r","e","d"," ","K","O","T","S"," ","l","i","c","e","n","s","e">>],
    \* 11: r"image.*pull.*failed": "Container image pull failure"
    [pattern |-> << << <<"i","m","a","g","e">>, <<"p","u","l","l">>, <<"f","a","i","l","e","d">> >> >>,
     cause |-> <<"C","o","n","t","a","i","n","e","r"," ","i","m","a","g","e"," ","p","u","l","l"," ","f","a","i","l","u","r","e">>],
    \* 12: r"pod.*crash.*loop": "Pod crash loop detected"
    [pattern |-> << << <<"p","o","d">>, <<"c","r","a","s","h">>, <<"l","o","o","p">> >> >>,
     cause |-> <<"P","o","d"," ","c","r","a","s","h"," ","l","o","o","p"," ","d","e","t","e","c","t","e","d">>],
    \* 13: r"insufficient.*cpu|insufficient.*memory": "Resource constraints"
    [pattern |-> << << <<"i","n","s","u","f","f","i","c","i","e","n","t">>, <<"c","p","u">> >>, << <<"i","n","s","u","f","f","i","c","i","e","n","t">>, <<"m","e","m","o","r","y">> >> >>,
     cause |-> <<"R","e","s","o","u","r","c","e"," ","c","o","n","s","t","r","a","i","n","t","s">>],
    \* 14: r"persistentvolumeclaim.*not.*found": "Storage/PVC issue"
    [pattern |-> << << <<"p","e","r","s","i","s","t","e","n","t","v","o","l","u","m","e","c","l","a","i","m">>, <<"n","o","t">>, <<"f","o","u","n","d">> >> >>,
     cause |-> <<"S","t","o","r","a","g","e","/","P","V","C"," ","i","s","s","u","e">>],
    \* 15: r"service.*not.*found": "Service discovery issue"
    [pattern |-> << << <<"s","e","r","v","i","c","e">>, <<"n","o","t">>, <<"f","o","u","n","d">> >> >>,
     cause |-> <<"S","e","r","v","i","c","e"," ","d","i","s","c","o","v","e","r","y"," ","i","s","s","u","e">>],
    \* 16: r"configmap.*not.*found": "Configuration issue"
    [pattern |-> << << <<"c","o","n","f","i","g","m","a","p">>, <<"n","o","t">>, <<"f","o","u","n","d">> >> >>,
     cause |-> <<"C","o","n","f","i","g","u","r","a","t","i","o","n"," ","i","s","s","u","e">>],
    \* 17: r"secret.*not.*found": "Secret/credential issue"
    [pattern |-> << << <<"s","e","c","r","e","t">>, <<"n","o","t">>, <<"f","o","u","n","d">> >> >>,
     cause |-> <<"S","e","c","r","e","t","/","c","r","e","d","e","n","t","i","a","l"," ","i","s","s","u","e">>],
    \* 18: r"node.*not.*ready": "Node health issue"
    [pattern |-> << << <<"n","o","d","e">>, <<"n","o","t">>, <<"r","e","a","d","y">> >> >>,
     cause |-> <<"N","o","d","e"," ","h","e","a","l","t","h"," ","i","s","s","u","e">>],
    \* 19: r"network.*policy.*denied": "Network policy restriction"
    [pattern |-> << << <<"n","e","t","w","o","r","k">>, <<"p","o","l","i","c","y">>, <<"d","e","n","i","e","d">> >> >>,
     cause |-> <<"N","e","t","w","o","r","k"," ","p","o","l","i","c","y"," ","r","e","s","t","r","i","c","t","i","o","n">>],
    \* 20: r"rbac.*forbidden": "RBAC permission issue"
    [pattern |-> << << <<"r","b","a","c">>, <<"f","o","r","b","i","d","d","e","n">> >> >>,
     cause |-> <<"R","B","A","C"," ","p","e","r","m","i","s","s","i","o","n"," ","i","s","s","u","e">>],
    \* 21: r"connection.*refused": "Network connectivity issue"
    [pattern |-> << << <<"c","o","n","n","e","c","t","i","o","n">>, <<"r","e","f","u","s","e","d">> >> >>,
     cause |-> <<"N","e","t","w","o","r","k"," ","c","o","n","n","e","c","t","i","v","i","t","y"," ","i","s","s","u","e">>],
    \* 22: r"permission.*denied": "Access control or permissions issue"
    [pattern |-> << << <<"p","e","r","m","i","s","s","i","o","n">>, <<"d","e","n","i","e","d">> >> >>,
     cause |-> <<"A","c","c","e","s","s"," ","c","o","n","t","r","o","l"," ","o","r"," ","p","e","r","m","i","s","s","i","o","n","s"," ","i","s","s","u","e">>],
    \* 23: r"timeout": "Resource exhaustion or network latency"
    [pattern |-> << << <<"t","i","m","e","o","u","t">> >> >>,
     cause |-> <<"R","e","s","o","u","r","c","e"," ","e","x","h","a","u","s","t","i","o","n"," ","o","r"," ","n","e","t","w","o","r","k"," ","l","a","t","e","n","c","y">>],
    \* 24: r"out of memory": "Resource exhaustion"
    [pattern |-> << << <<"o","u","t"," ","o","f"," ","m","e","m","o","r","y">> >> >>,
     cause |-> <<"R","e","s","o","u","r","c","e"," ","e","x","h","a","u","s","t","i","o","n">>],
    \* 25: r"not found": "Missing resource or configuration"
    [pattern |-> << << <<"n","o","t"," ","f","o","u","n","d">> >> >>,
     cause |-> <<"M","i","s","s","i","n","g"," ","r","e","s","o","u","r","c","e"," ","o","r"," ","c","o","n","f","i","g","u","r","a","t","i","o","n">>],
    \* 26: r"already exists": "Resource conflict"
    [pattern |-> << << <<"a","l","r","e","a","d","y"," ","e","x","i","s","t","s">> >> >>,
     cause |-> <<"R","e","s","o","u","r","c","e"," ","c","o","n","f","l","i","c","t">>],
    \* 27: r"invalid.*format": "Data format or syntax error"
    [pattern |-> << << <<"i","n","v","a","l","i","d">>, <<"f","o","r","m","a","t">> >> >>,
     cause |-> <<"D","a","t","a"," ","f","o","r","m","a","t"," ","o","r"," ","s","y","n","t","a","x"," ","e","r","r","o","r">>],
    \* 28: r"authentication.*failed": "Credentials or authentication issue"
    [pattern |-> << << <<"a","u","t","h","e","n","t","i","c","a","t","i","o","n">>, <<"f","a","i","l","e","d">> >> >>,
     cause |-> <<"C","r","e","d","e","n","t","i","a","l","s"," ","o","r"," ","a","u","t","h","e","n","t","i","c","a","t","i","o","n"," ","i","s","s","u","e">>],
    \* 29: r"dependency.*missing": "Missing dependency or package"
    [pattern |-> << << <<"d","e","p","e","n","d","e","n","c","y">>, <<"m","i","s","s","i","n","g">> >> >>,
     cause |-> <<"M","i","s","s","i","n","g"," ","d","e","p","e","n","d","e","n","c","y"," ","o","r"," ","p","a","c","k","a","g","e">>],
    \* 30: r"port.*in use": "Resource conflict - port already in use"
    [pattern |-> << << <<"p","o","r","t">>, <<"i","n"," ","u","s","e">> >> >>,
     cause |-> <<"R","e","s","o","u","r","c","e"," ","c","o","n","f","l","i","c","t"," ","-"," ","p","o","r","t"," ","a","l","r","e","a","d","y"," ","i","n"," ","u","s","e">>]
  >>

KEYWORDS == << <<"e","r","r","o","r">>, <<"e","x","c","e","p","t","i","o","n">>, <<"f","a","i","l","e","d">>, <<"f","a","t","a","l">>, <<"c","r","i","t","i","c","a","l">>, <<"w","a","r","n","i","n","g">> >>

IsErrorLine(line) ==
  \E k \in 1..Len(KEYWORDS) : Contains(KEYWORDS[k], lower(line))

\* lines = [line.strip() for line in re.split(...) if line.strip()]
CleanLines(text) ==
  LET pieces   == re_split(text)
      stripped == [i \in 1..Len(pieces) |-> strip(pieces[i])]
  IN  SelectSeq(stripped, LAMBDA l : l # <<>>)

\* a faulty variant: the window stops one line early
ContextWindowShort(lines, i) ==
  SubSeq(lines, Max(1, i - 2), Min(Len(lines), i + 1))

ContextWindow(lines, i) ==
  SubSeq(lines, Max(1, i - 2), Min(Len(lines), i + 2))

RECURSIVE ErrorLinesFrom(_, _)
ErrorLinesFrom(lines, i) ==
  IF i > Len(lines) THEN <<>>
  ELSE (IF IsErrorLine(lines[i]) THEN ContextWindow(lines, i) ELSE <<>>)
       \o ErrorLinesFrom(lines, i + 1)

extract_error_context(text) ==
  LET lines       == CleanLines(text)
      error_lines == ErrorLinesFrom(lines, 1)
  IN  IF error_lines # <<>> THEN error_lines ELSE lines

\* the loop over ERROR_PATTERNS.items(), from entry i on; lowered is text.lower()
RECURSIVE MatchesFrom(_, _)
MatchesFrom(lowered, i) ==
  IF i > Len(ERROR_PATTERNS) THEN <<>>
  ELSE (IF re_search(ERROR_PATTERNS[i].pattern, lowered)
        THEN <<ERROR_PATTERNS[i]>> ELSE <<>>)
       \o MatchesFrom(lowered, i + 1)

identify_patterns(text) == MatchesFrom(lower(text), 1)

HELM_STEPS ==
  << "Check Helm chart version compatibility",
     "Verify Helm repository access",
     "Review Helm values and configuration",
     "Check Kubernetes version requirements" >>

KOTS_STEPS ==
  << "Verify KOTS license validity",
     "Check KOTS version compatibility",
     "Review KOTS configuration",
     "Check application requirements" >>

KUBERNETES_STEPS ==
  << "Check Kubernetes cluster health",
     "Verify resource availability",
     "Review pod and service status",
     "Check network policies" >>

NETWORK_STEPS ==
  << "Check network connectivity",
     "Verify firewall settings",
     "Confirm service is running on the expected port",
     "Check network policies" >>

PERMISSION_STEPS ==
  << "Verify user permissions",
     "Check RBAC settings",
     "Review security contexts",
     "Check service account permissions" >>

RESOURCE_STEPS ==
  << "Check system resources (CPU, memory, disk)",
     "Review resource limits and quotas",
     "Consider scaling resources",
     "Check node capacity" >>

GENERIC_STEPS ==
  << "Review the error context for more details",
     "Check system logs for related errors",
     "Verify configuration settings",
     "Check application status" >>

\* a faulty variant: "resource" is tested before "network"
get_next_steps_resource_first(root_cause) ==
  IF Contains(<<"h","e","l","m">>, lower(root_cause)) THEN HELM_STEPS
  ELSE IF Contains(<<"k","o","t","s">>, lower(root_cause)) THEN KOTS_STEPS
  ELSE IF Contains(<<"k","u","b","e","r","n","e","t","e","s">>, lower(root_cause)) THEN KUBERNETES_STEPS
  ELSE IF Contains(<<"r","e","s","o","u","r","c","e">>, lower(root_cause)) THEN RESOURCE_STEPS
  ELSE IF Contains(<<"n","e","t","w","o","r","k">>, lower(root_cause)) THEN NETWORK_STEPS
  ELSE IF Contains(<<"p","e","r","m","i","s","s","i","o","n">>, lower(root_cause)) THEN PERMISSION_STEPS
  ELSE GENERIC_STEPS

get_next_steps(root_cause) ==
  IF Contains(<<"h","e","l","m">>, lower(root_cause)) THEN HELM_STEPS
  ELSE IF Contains(<<"k","o","t","s">>, lower(root_cause)) THEN KOTS_STEPS
  ELSE IF Contains(<<"k","u","b","e","r","n","e","t","e","s">>, lower(root_cause)) THEN KUBERNETES_STEPS
  ELSE IF Contains(<<"n","e","t","w","o","r","k">>, lower(root_cause)) THEN NETWORK_STEPS
  ELSE IF Contains(<<"p","e","r","m","i","s","s","i","o","n">>, lower(root_cause)) THEN PERMISSION_STEPS
  ELSE IF Contains(<<"r","e","s","o","u","r","c","e">>, lower(root_cause)) THEN RESOURCE_STEPS
  ELSE GENERIC_STEPS

UNKNOWN_ISSUE == <<"U","n","k","n","o","w","n"," ","i","s","s","u","e">>

IsHelmKots(m) ==
  Contains(<<"h","e","l","m">>, lower(m.cause)) \/ Contains(<<"k","o","t","s">>, lower(m.cause))

\* a faulty variant: no Helm/KOTS priority, the first match wins
ResolveRootCauseFirstMatch(pattern_matches) ==
  IF pattern_matches # <<>> THEN pattern_matches[1].cause ELSE UNKNOWN_ISSUE

\* root_cause of analyze_log, from the pattern matches
ResolveRootCause(pattern_matches) ==
  IF pattern_matches # <<>>
  THEN LET helm_kots_matches == SelectSeq(pattern_matches, IsHelmKots)
       IN  IF helm_kots_matches # <<>>
           THEN helm_kots_matches[1].cause
           ELSE pattern_matches[1].cause
  ELSE UNKNOWN_ISSUE

\* The classifier (tokenizer, forward pass, softmax, max) is a collaborator:
\* a call either raises or yields the largest class probability, here in
\* thousandths: [raises |-> BOOLEAN, prob |-> 0..1000].
RAISES == [raises |-> TRUE, prob |-> 0]

Digits == <<"0","1","2","3","4","5","6","7","8","9">>

\* f"{confidence:.2f}" of p / 1000
Format2f(p) ==
  LET h == (p + 5) \div 10
  IN  << Digits[(h \div 100) + 1], ".",
         Digits[((h \div 10) % 10) + 1], Digits[(h % 10) + 1] >>

\* analyze_log(text) when the classifier step does clf; an exception of the
\* classifier step leaves analyze_log.
analyze_log(text, clf) ==
  LET error_context   == extract_error_context(text)
      context_text    == join(error_context)
      pattern_matches == identify_patterns(text)
      root_cause      == ResolveRootCause(pattern_matches)
  IN  IF clf.raises
      THEN [raised |-> TRUE]
      ELSE [raised     |-> FALSE,
            root_cause |-> root_cause,
            confidence |-> Format2f(clf.prob),
            next_steps |-> get_next_steps(root_cause),
            context    |-> context_text]

----------------------------------------------------------------------------
(* Inputs of the model_loader functions                                    *)

MaxLines == 5
MaxPhrases == 3
MaxKeywords == 2

RECURSIVE SeqsUpTo(_, _)
SeqsUpTo(S, n) ==
  IF n = 0 THEN {<<>>}
  ELSE LET shorter == SeqsUpTo(S, n - 1)
       IN  shorter \cup {Append(s, x) : s \in {t \in shorter : Len(t) = n - 1}, x \in S}

RECURSIVE joinWith(_, _)
joinWith(sep, parts) ==
  IF parts = <<>> THEN <<>>
  ELSE IF Len(parts) = 1 THEN parts[1]
  ELSE parts[1] \o sep \o joinWith(sep, Tail(parts))

\* log lines: plain, padded plain, with a fault keyword, and blank with a stray \r
LineChoices == { <<"a">>, <<" ","b","\t">>, <<"F","a","t","a","l">>, <<" ","\r">> }

\* log phrases for the pattern catalog
PhraseChoices ==
  { <<"h","e","l","m"," ","u","p","g","r","a","d","e">>, <<"f","a","i","l","e","d">>, <<"c","h","a","r","t"," ","n","o","t"," ","f","o","u","n","d">>, <<"K","O","T","S"," ","l","i","c","e","n","s","e"," ","i","n","v","a","l","i","d">>,
    <<"t","i","m","e","o","u","t">>, <<"\n">> }

\* words of root-cause labels
KeywordChoices ==
  { <<"H","e","l","m">>, <<"K","O","T","S">>, <<"k","u","b","e","r","n","e","t","e","s">>, <<"N","e","t","w","o","r","k">>, <<"p","e","r","m","i","s","s","i","o","n">>, <<"r","e","s","o","u","r","c","e">>, <<"i","s","s","u","e">> }

LineTexts   == {joinWith(<<NL>>, s) : s \in SeqsUpTo(LineChoices, MaxLines)}
PhraseTexts == {joinWith(<<" ">>, s) : s \in SeqsUpTo(PhraseChoices, MaxPhrases)}
Labels      == {joinWith(<<" ">>, s) : s \in SeqsUpTo(KeywordChoices, MaxKeywords)}
                 \cup {ERROR_PATTERNS[i].cause : i \in 1..Len(ERROR_PATTERNS)}
                 \cup {UNKNOWN_ISSUE}

ScenarioTexts ==
  { <<"E","r","r","o","r",":"," ","h","e","l","m"," ","r","e","l","e","a","s","e"," ","f","a","i","l","e","d"," ","t","o"," ","i","n","s","t","a","l","l"," ","c","h","a","r","t"," ","m","y","a","p","p">>,
    <<"I","N","F","O",":"," ","p","o","d"," ","m","y","a","p","p","-","1","2","3"," ","s","t","a","r","t","e","d"," ","s","u","c","c","e","s","s","f","u","l","l","y">>,
    <<"c","h","a","r","t"," ","r","e","q","u","i","r","e","s"," ","k","u","b","e","r","n","e","t","e","s"," ","v","e","r","s","i","o","n"," ","1",".","2","7","\n","h","e","l","m"," ","u","p","g","r","a","d","e"," ","f","a","i","l","e","d">> }

\* the pattern catalog is run on the log texts, not on the line layouts
LogTexts == PhraseTexts \cup ScenarioTexts
Inputs   == LineTexts \cup LogTexts \cup Labels

\* class probabilities of a two-label softmax, in thousandths
Probabilities == {737, 1000}
ClassifierOutcomes ==
  {RAISES} \cup {[raises |-> FALSE, prob |-> p] : p \in Probabilities}

NoCall == [fn |-> "none"]
NoEnv == [none |-> TRUE]
NoRequest == [endpoint |-> "none"]
NoResponse == [status |-> 0]

----------------------------------------------------------------------------
(* Calls of the model_loader functions                                     *)

InitFn ==
  /\ arg \in Inputs
  /\ ret = NoCall
  /\ env = NoEnv
  /\ request = NoRequest
  /\ response = NoResponse

ExtractErrorContext ==
  /\ ret' = [fn |-> "extract_error_context", value |-> extract_error_context(arg)]
  /\ UNCHANGED <<arg, env, request, response>>

IdentifyPatterns ==
  /\ arg \in LogTexts
  /\ ret' = [fn |-> "identify_patterns", value |-> identify_patterns(arg)]
  /\ UNCHANGED <<arg, env, request, response>>

GetNextSteps ==
  /\ ret' = [fn |-> "get_next_steps", value |-> get_next_steps(arg)]
  /\ UNCHANGED <<arg, env, request, response>>

AnalyzeLog ==
  /\ arg \in LogTexts
  /\ \E clf \in ClassifierOutcomes :
       ret' = [fn |-> "analyze_log", clf |-> clf, value |-> analyze_log(arg, clf)]
  /\ UNCHANGED <<arg, env, request, response>>

NextFn == ExtractErrorContext \/ IdentifyPatterns \/ GetNextSteps \/ AnalyzeLog

SpecFn == InitFn /\ [][NextFn]_vars


----------------------------------------------------------------------------
(* api_server.py: the log sources                                          *)

MaxFiles == 2

\* datetime.now(), in hours; one request is served at one instant
Now == 1000

HoursChoices == {1, 24}

HelmLog == <<"E","r","r","o","r",":"," ","h","e","l","m"," ","r","e","l","e","a","s","e"," ","f","a","i","l","e","d"," ","t","o"," ","i","n","s","t","a","l","l"," ","c","h","a","r","t"," ","m","y","a","p","p">>
InfoLog == <<"I","N","F","O",":"," ","p","o","d"," ","m","y","a","p","p","-","1","2","3"," ","s","t","a","r","t","e","d"," ","s","u","c","c","e","s","s","f","u","l","l","y">>
FormatLog == <<"k","0","s",":"," ","i","n","v","a","l","i","d"," ","f","o","r","m","a","t"," ","i","n"," ","c","o","n","f","i","g">>

FileTexts == {HelmLog, InfoLog}

\* what get_journalctl_logs returns when subprocess.run raises
JournalctlError ==
  <<"E","r","r","o","r"," ","g","e","t","t","i","n","g"," ","j","o","u","r","n","a","l","c","t","l"," ","l","o","g","s",":"," ","[","E","r","r","n","o"," ","2","]"," ","N","o"," ","s","u","c","h"," ","f","i","l","e"," ","o","r"," ","d","i","r","e","c","t","o","r","y",":"," ","'","j","o","u","r","n","a","l","c","t","l","'">>

ServerTexts == FileTexts \cup {FormatLog, JournalctlError}

SERVICES == << "k0scontroller.service", "k0sworker.service", "local-artifact-mirror.service" >>

\* journalctl is not installed; prints nothing; prints logs of the k0s units
JournalStates == {"missing", "quiet", "logs"}

EMBEDDED_DIR == "/logs/embedded-cluster"
DATA_DIR     == "/logs/embedded-cluster-data/logs"
PODS_DIR     == "/logs/pods"
SYSLOG_PATH  == "/logs/syslog"

\* a pod directory <namespace>_<pod>_<uid> under /logs/pods
KotsadmPodDir == [namespace |-> "kotsadm", pod |-> "kotsadm-0"]

\* where a *.log file lies: its directory, and below /logs/pods the
\* directories between /logs/pods and the file
Places ==
  { [dir |-> EMBEDDED_DIR, sub |-> <<>>],
    [dir |-> DATA_DIR,     sub |-> <<>>],
    [dir |-> PODS_DIR,     sub |-> <<>>],
    [dir |-> PODS_DIR,     sub |-> <<KotsadmPodDir>>],
    [dir |-> SYSLOG_PATH,  sub |-> <<>>] }

\* a fresh and a day-old log of a failed Helm release, a fresh log without
\* faults, and a fresh file that cannot be read (its content is never seen)
FileKinds ==
  { [text |-> HelmLog, mtime |-> Now,      readable |-> TRUE],
    [text |-> HelmLog, mtime |-> Now - 24, readable |-> TRUE],
    [text |-> InfoLog, mtime |-> Now,      readable |-> TRUE],
    [text |-> InfoLog, mtime |-> Now,      readable |-> FALSE] }

FileChoices ==
  { [place |-> p, text |-> k.text, mtime |-> k.mtime, readable |-> k.readable] :
      p \in Places, k \in FileKinds }

PlaceRank(p) ==
  IF p.dir = EMBEDDED_DIR THEN 1
  ELSE IF p.dir = DATA_DIR THEN 2
  ELSE IF p.dir = PODS_DIR /\ p.sub = <<>> THEN 3
  ELSE IF p.dir = PODS_DIR THEN 4
  ELSE 5

KindRank(f) ==
  IF ~f.readable THEN 4
  ELSE IF f.text = InfoLog THEN 3
  ELSE IF f.mtime = Now THEN 1
  ELSE 2

ListingRank(f) == 4 * PlaceRank(f.place) + KindRank(f)

\* the *.log files of the disk and the syslog, at most MaxFiles in all, each
\* directory in its listing order; file i is named "<i>.log"
Disks ==
  { d \in SeqsUpTo(FileChoices, MaxFiles) :
      /\ \A i, j \in 1..Len(d) : i < j => ListingRank(d[i]) <= ListingRank(d[j])
      /\ Cardinality({i \in 1..Len(d) : d[i].place.dir = SYSLOG_PATH}) <= 1 }

LogDirs == {EMBEDDED_DIR, DATA_DIR, PODS_DIR}

\* dirs: the log directories that exist though they may hold no file;
\* failsOn: the log texts on which the tokenizer or the model raises
Envs ==
  { [files |-> d, dirs |-> ds, journalctl |-> j, failsOn |-> f] :
      d \in Disks, ds \in {{}, LogDirs}, j \in JournalStates, f \in SUBSET FileTexts }

\* os.path.basename(log_file): file i of the disk is "<i>.log"
BaseName(i) == ToString(i)

\* os.path.exists(path)
Exists(path) ==
  \/ path \in env.dirs
  \/ \E i \in 1..Len(env.files) : env.files[i].place.dir = path

\* the files of the disk by index, in listing order
FileIndices == [i \in 1..Len(env.files) |-> i]

\* glob.glob(f"{log_dir}/*.log")
GlobDir(log_dir) ==
  SelectSeq(FileIndices, LAMBDA i : /\ env.files[i].place.dir = log_dir
                                    /\ env.files[i].place.sub = <<>>)

\* the classifier's answer on a log text, rendered by analyze_log
Analysis ==
  [t \in ServerTexts, raises \in BOOLEAN |->
     analyze_log(t, IF raises THEN RAISES ELSE [raises |-> FALSE, prob |-> 737])]

\* result["timestamp"] = ... on what analyze_log returned
WithTimestamp(result, timestamp) ==
  IF result.raised THEN result
  ELSE [raised     |-> FALSE,
        root_cause |-> result.root_cause,
        confidence |-> result.confidence,
        next_steps |-> result.next_steps,
        context    |-> result.context,
        timestamp  |-> timestamp]

Fails(log_text) == log_text \in env.failsOn

\* analyze_log(log_text) followed by result["timestamp"] = ...
Analyze(log_text, timestamp) ==
  WithTimestamp(Analysis[log_text, Fails(log_text)], timestamp)

\* {"filename": ..., "analysis": result}, or the exception that result is
LogFileResponse(filename, result) ==
  IF result.raised THEN [raised |-> TRUE]
  ELSE [raised |-> FALSE, filename |-> filename, analysis |-> result]

\* open(log_file).read(), analyze_log, the timestamp: an exception, or the
\* LogFileResponse of file i under the given filename
ReadAndAnalyze(i, filename) ==
  IF ~env.files[i].readable THEN [raised |-> TRUE]
  ELSE LogFileResponse(filename, Analyze(env.files[i].text, env.files[i].mtime))

\* os.path.getmtime(log_file) >= (now - timedelta(hours=hours)).timestamp()
InWindow(i, hours) == env.files[i].mtime >= Now - hours

Raised(outcomes) == \E k \in 1..Len(outcomes) : outcomes[k].raised

Returned(outcomes) == SelectSeq(outcomes, LAMBDA o : ~o.raised)

\* a LogFileResponse without the bookkeeping of the model
Entry(o) == [filename |-> o.filename, analysis |-> o.analysis]

Entries(outcomes) == [k \in 1..Len(outcomes) |-> Entry(outcomes[k])]

\* get_journalctl_logs(service, hours)
get_journalctl_logs(service, hours) ==
  IF env.journalctl = "missing" THEN JournalctlError
  ELSE IF env.journalctl = "quiet" THEN <<>>
  ELSE IF service = "k0scontroller.service" THEN FormatLog
  ELSE IF service = "k0sworker.service" THEN InfoLog
  ELSE <<>>

OK(body) == [status |-> 200, body |-> body]
HTTPException(status_code) == [status |-> status_code]

\* one directory loop of analyze_embedded_cluster_logs: nothing guards the
\* read, so its outcomes may hold an exception
EmbeddedDirOutcomes(log_dir, hours) ==
  IF Exists(log_dir)
  THEN LET inWindow == SelectSeq(GlobDir(log_dir), LAMBDA i : InWindow(i, hours))
       IN  [k \in 1..Len(inWindow) |-> ReadAndAnalyze(inWindow[k], <<BaseName(inWindow[k])>>)]
  ELSE <<>>

\* the loop over the systemd services: an empty journal is skipped
JournalOutcomes(hours) ==
  LET nonEmpty == SelectSeq(SERVICES, LAMBDA sv : get_journalctl_logs(sv, hours) # <<>>)
  IN  [k \in 1..Len(nonEmpty) |->
         LogFileResponse(<<"journalctl", nonEmpty[k]>>,
                         Analyze(get_journalctl_logs(nonEmpty[k], hours), Now))]

\* return results, or the HTTPException of the except clause
EmbeddedResponse(outcomes) ==
  IF Raised(outcomes) THEN HTTPException(500) ELSE OK(Entries(outcomes))

\* GET /analyze/embedded-cluster
analyze_embedded_cluster_logs(hours) ==
  EmbeddedResponse(EmbeddedDirOutcomes(EMBEDDED_DIR, hours)
                     \o EmbeddedDirOutcomes(DATA_DIR, hours)
                     \o JournalOutcomes(hours))

NONE == "None"

\* the directory patterns get_pod_logs puts between log_dir and "*.log"
SearchPattern(namespace, pod_name) ==
  (IF namespace # NONE THEN <<[field |-> "namespace", is |-> namespace]>> ELSE <<>>)
  \o (IF pod_name # NONE THEN <<[field |-> "pod", is |-> pod_name]>> ELSE <<>>)

\* fnmatch of "<namespace>_*" and of "*_<pod_name>_*" on a pod directory
DirMatches(d, pat) ==
  IF pat.field = "namespace" THEN d.namespace = pat.is ELSE d.pod = pat.is

\* glob.glob(search_pattern) below /logs/pods
GlobPods(log_dir, pattern) ==
  SelectSeq(FileIndices, LAMBDA i :
              /\ env.files[i].place.dir = log_dir
              /\ Len(env.files[i].place.sub) = Len(pattern)
              /\ \A k \in 1..Len(pattern) : DirMatches(env.files[i].place.sub[k], pattern[k]))

\* path_parts[-2] of the log file
PodInfo(f) ==
  IF f.place.sub = <<>> THEN "pods" ELSE f.place.sub[Len(f.place.sub)].namespace

\* get_pod_logs(log_dir, namespace, pod_name, hours): a read that raises is
\* caught for the one file
get_pod_logs(log_dir, namespace, pod_name, hours) ==
  IF ~Exists(log_dir) THEN <<>>
  ELSE LET inWindow == SelectSeq(GlobPods(log_dir, SearchPattern(namespace, pod_name)),
                                 LAMBDA i : InWindow(i, hours))
       IN  Entries(Returned([k \in 1..Len(inWindow) |->
                   ReadAndAnalyze(inWindow[k],
                                  <<PodInfo(env.files[inWindow[k]]), BaseName(inWindow[k])>>)]))

\* GET /analyze/pod-logs
analyze_pod_logs(namespace, pod_name, hours) ==
  OK(get_pod_logs(PODS_DIR, namespace, pod_name, hours))

SyslogResponse(o) ==
  IF o.raised THEN HTTPException(500) ELSE OK(Entry(o))

\* GET /analyze/syslog: the 404 is raised inside the try and leaves as a 500,
\* like a failed read or a failed analysis; hours is not used
analyze_syslog(hours) ==
  IF \A i \in 1..Len(env.files) : env.files[i].place.dir # SYSLOG_PATH
  THEN HTTPException(500)
  ELSE SyslogResponse(
         ReadAndAnalyze(CHOOSE i \in 1..Len(env.files) :
                          env.files[i].place.dir = SYSLOG_PATH, <<"syslog">>))

\* a faulty variant: only "fail" makes a root cause critical
IsCriticalFailOnly(root_cause) == Contains(<<"f","a","i","l">>, lower(root_cause))

\* "error" in root_cause.lower() or "fail" in root_cause.lower()
IsCritical(root_cause) ==
  Contains(<<"e","r","r","o","r">>, lower(root_cause)) \/ Contains(<<"f","a","i","l">>, lower(root_cause))

CriticalIssue(source, log) ==
  [source     |-> source,
   file       |-> log.filename,
   issue      |-> log.analysis.root_cause,
   confidence |-> log.analysis.confidence,
   next_steps |-> log.analysis.next_steps,
   context    |-> log.analysis.context]

Warning(source, log) ==
  [source     |-> source,
   file       |-> log.filename,
   issue      |-> log.analysis.root_cause,
   confidence |-> log.analysis.confidence,
   next_steps |-> log.analysis.next_steps]

CriticalOf(source, logs) ==
  LET crit == SelectSeq(logs, LAMBDA log : IsCritical(log.analysis.root_cause))
  IN  [k \in 1..Len(crit) |-> CriticalIssue(source, crit[k])]

\* a faulty variant: the warnings are all the logs, the critical ones included
WarningsOfAll(source, logs) ==
  [k \in 1..Len(logs) |-> Warning(source, logs[k])]

WarningsOf(source, logs) ==
  LET warn == SelectSeq(logs, LAMBDA log : ~IsCritical(log.analysis.root_cause))
  IN  [k \in 1..Len(warn) |-> Warning(source, warn[k])]

\* a faulty variant: a warning makes the system unhealthy too
SystemStatusAnyIssue(critical_issues, warnings, analyzed_sources) ==
  [status                |-> IF critical_issues = <<>> /\ warnings = <<>>
                             THEN "healthy" ELSE "unhealthy",
   critical_issues_count |-> Len(critical_issues),
   warnings_count        |-> Len(warnings),
   log_sources_available |-> Len(analyzed_sources)]

SystemStatus(critical_issues, warnings, analyzed_sources) ==
  [status                |-> IF critical_issues = <<>> THEN "healthy" ELSE "unhealthy",
   critical_issues_count |-> Len(critical_issues),
   warnings_count        |-> Len(warnings),
   log_sources_available |-> Len(analyzed_sources)]

\* a faulty variant: "syslog" is listed before analyze_syslog is known to succeed
AnalyzedSourcesSyslogFirst(embedded_logs, pod_logs, syslog) ==
  (IF embedded_logs # <<>> THEN <<"embedded-cluster">> ELSE <<>>)
    \o (IF pod_logs # <<>> THEN <<"pods">> ELSE <<>>)
    \o <<"syslog">>

AnalyzedSources(embedded_logs, pod_logs, syslog) ==
  (IF embedded_logs # <<>> THEN <<"embedded-cluster">> ELSE <<>>)
    \o (IF pod_logs # <<>> THEN <<"pods">> ELSE <<>>)
    \o (IF syslog.status = 200 THEN <<"syslog">> ELSE <<>>)

Report(critical_issues, warnings, analyzed_sources) ==
  [critical_issues      |-> critical_issues,
   warnings             |-> warnings,
   system_status        |-> SystemStatus(critical_issues, warnings, analyzed_sources),
   log_sources_analyzed |-> analyzed_sources]

\* the three merges of analyze_all_logs; an HTTPException of analyze_syslog
\* is passed over
Consolidate(embedded_logs, pod_logs, syslog, syslog_logs) ==
  Report(CriticalOf("embedded-cluster", embedded_logs)
           \o CriticalOf("pods", pod_logs) \o CriticalOf("syslog", syslog_logs),
         WarningsOf("embedded-cluster", embedded_logs)
           \o WarningsOf("pods", pod_logs) \o WarningsOf("syslog", syslog_logs),
         AnalyzedSources(embedded_logs, pod_logs, syslog))

\* an HTTPException of analyze_embedded_cluster_logs reaches the outer except
AllResponse(embedded, pods, syslog) ==
  IF embedded.status # 200 THEN HTTPException(500)
  ELSE OK(Consolidate(embedded.body, pods.body, syslog,
                      IF syslog.status = 200 THEN <<syslog.body>> ELSE <<>>))

\* GET /analyze/all
analyze_all_logs(hours) ==
  AllResponse(analyze_embedded_cluster_logs(hours),
              analyze_pod_logs(NONE, NONE, hours),
              analyze_syslog(hours))

----------------------------------------------------------------------------
(* api_server.py: requests                                                 *)

Namespaces == {NONE, "kotsadm"}
PodNames   == {NONE, "kotsadm-0"}

\* the GET requests; hours, namespace and pod_name are query parameters
Requests ==
  { [endpoint |-> e, hours |-> h] :
      e \in {"/analyze/embedded-cluster", "/analyze/syslog", "/analyze/all"},
      h \in HoursChoices }
  \cup { [endpoint |-> "/analyze/pod-logs", hours |-> h, namespace |-> n, pod_name |-> p] :
           h \in HoursChoices, n \in Namespaces, p \in PodNames }
  \cup { [endpoint |-> "/health"] }

\* a request arrives at a server whose log sources are in some state
Init ==
  /\ arg = <<>>
  /\ ret = NoCall
  /\ env \in Envs
  /\ request \in Requests
  /\ response = NoResponse

AnalyzeEmbeddedClusterLogs ==
  /\ request.endpoint = "/analyze/embedded-cluster"
  /\ response' = analyze_embedded_cluster_logs(request.hours)
  /\ UNCHANGED <<arg, ret, env, request>>

AnalyzePodLogs ==
  /\ request.endpoint = "/analyze/pod-logs"
  /\ response' = analyze_pod_logs(request.namespace, request.pod_name, request.hours)
  /\ UNCHANGED <<arg, ret, env, request>>

AnalyzeSyslog ==
  /\ request.endpoint = "/analyze/syslog"
  /\ response' = analyze_syslog(request.hours)
  /\ UNCHANGED <<arg, ret, env, request>>

AnalyzeAllLogs ==
  /\ request.endpoint = "/analyze/all"
  /\ response' = analyze_all_logs(request.hours)
  /\ UNCHANGED <<arg, ret, env, request>>

HealthCheck ==
  /\ request.endpoint = "/health"
  /\ response' = OK([status |-> "healthy"])
  /\ UNCHANGED <<arg, ret, env, request>>

Next ==
  \/ AnalyzeEmbeddedClusterLogs
  \/ AnalyzePodLogs
  \/ AnalyzeSyslog
  \/ AnalyzeAllLogs
  \/ HealthCheck

Spec == Init /\ [][Next]_vars

----------------------------------------------------------------------------
(* Properties of the endpoints (checked under Spec)                        *)

IsReport == request.endpoint = "/analyze/all" /\ response.status = 200

\* an /analyze request has been answered
Served == response.status # 0 /\ request.endpoint # "/health"

FileIds == 1..Len(env.files)

\* file i was last modified before now - hours
TooOld(i, hours) == env.files[i].mtime < Now - hours

\* file i can be opened and its text passes the classifier
Usable(i) == env.files[i].readable /\ env.files[i].text \notin env.failsOn

InEmbeddedDirs(i) == env.files[i].place.dir \in {EMBEDDED_DIR, DATA_DIR}

InPodsDir(i) == env.files[i].place.dir = PODS_DIR

\* the pod files the unfiltered pattern /logs/pods/*.log finds
InPodsRoot(i) == env.files[i].place = [dir |-> PODS_DIR, sub |-> <<>>]

IsSyslog(i) == env.files[i].place.dir = SYSLOG_PATH

SpeakingServices ==
  {sv \in {SERVICES[k] : k \in 1..Len(SERVICES)} : get_journalctl_logs(sv, 0) # <<>>}

\* the records of each category that a consolidated analysis over the last
\* `hours` finds and analyses, as <<source, file>>
EmbeddedRecords(hours) ==
  {<<"embedded-cluster", <<BaseName(i)>>>> :
      i \in {j \in FileIds : InEmbeddedDirs(j) /\ ~TooOld(j, hours) /\ Usable(j)}}
  \cup {<<"embedded-cluster", <<"journalctl", sv>>>> : sv \in SpeakingServices}

PodRecords(hours) ==
  {<<"pods", <<"pods", BaseName(i)>>>> :
      i \in {j \in FileIds : InPodsRoot(j) /\ ~TooOld(j, hours) /\ Usable(j)}}

SyslogRecords ==
  {<<"syslog", <<"syslog">>>> : i \in {j \in FileIds : IsSyslog(j) /\ Usable(j)}}

Issues == response.body.critical_issues \o response.body.warnings

Listed == [k \in 1..Len(Issues) |-> <<Issues[k].source, Issues[k].file>>]

Range(f) == {f[k] : k \in DOMAIN f}

\* C1: in every report of /analyze/all the status is "unhealthy" exactly when
\* critical_issues is non-empty and "healthy" otherwise, and the two counts are
\* the lengths of critical_issues and of warnings.
C1_StatusAndCounts ==
  IsReport =>
    /\ response.body.system_status.status =
         (IF response.body.critical_issues # <<>> THEN "unhealthy" ELSE "healthy")
    /\ response.body.system_status.critical_issues_count
         = Len(response.body.critical_issues)
    /\ response.body.system_status.warnings_count = Len(response.body.warnings)

\* a healthy report that carries warnings, with different counts
C1_Witness ==
  /\ IsReport
  /\ response.body.system_status.status = "healthy"
  /\ Len(response.body.warnings) >= 2

MentionsErrorOrFail(label) ==
  Contains(<<"e","r","r","o","r">>, lower(label)) \/ Contains(<<"f","a","i","l">>, lower(label))

\* C2: in every report each critical issue has a root cause that contains
\* "error" or "fail" (case-insensitive) and no warning has one, whatever the
\* source; an "Unknown issue" is never critical.
C2_CriticalIffErrorOrFail ==
  IsReport =>
    /\ \A k \in 1..Len(response.body.critical_issues) :
         /\ MentionsErrorOrFail(response.body.critical_issues[k].issue)
         /\ response.body.critical_issues[k].issue # <<"U","n","k","n","o","w","n"," ","i","s","s","u","e">>
    /\ \A k \in 1..Len(response.body.warnings) :
         ~MentionsErrorOrFail(response.body.warnings[k].issue)

\* critical issues by "error" alone and by "fail", from two sources, beside
\* an "Unknown issue" warning
C2_Witness ==
  /\ IsReport
  /\ \E k \in 1..Len(response.body.critical_issues) :
       /\ ~Contains(<<"f","a","i","l">>, lower(response.body.critical_issues[k].issue))
       /\ response.body.critical_issues[k].source = "embedded-cluster"
  /\ \E k \in 1..Len(response.body.critical_issues) :
       /\ ~Contains(<<"e","r","r","o","r">>, lower(response.body.critical_issues[k].issue))
       /\ response.body.critical_issues[k].source = "syslog"
  /\ \E k \in 1..Len(response.body.warnings) :
       response.body.warnings[k].issue = <<"U","n","k","n","o","w","n"," ","i","s","s","u","e">>

\* old *.log files of the two embedded-cluster directories and of /logs/pods
\* give no Diagnosis
OldDirectoryFilesExcluded ==
  (Served /\ response.status = 200) =>
    \A i \in {j \in FileIds : TooOld(j, request.hours)} :
      /\ (request.endpoint = "/analyze/embedded-cluster" /\ InEmbeddedDirs(i)) =>
           \A k \in 1..Len(response.body) : response.body[k].filename # <<BaseName(i)>>
      /\ (request.endpoint = "/analyze/pod-logs" /\ InPodsDir(i)) =>
           \A k \in 1..Len(response.body) :
             response.body[k].filename[2] # BaseName(i)
      /\ request.endpoint = "/analyze/all" =>
           /\ InEmbeddedDirs(i) =>
                <<"embedded-cluster", <<BaseName(i)>>>> \notin Range(Listed)
           /\ InPodsDir(i) => <<"pods", <<"pods", BaseName(i)>>>> \notin Range(Listed)

\* an old syslog gives no Diagnosis
OldSyslogExcluded ==
  (Served /\ response.status = 200) =>
    \A i \in {j \in FileIds : TooOld(j, request.hours) /\ IsSyslog(j)} :
      /\ request.endpoint # "/analyze/syslog"
      /\ request.endpoint = "/analyze/all" =>
           <<"syslog", <<"syslog">>>> \notin Range(Listed)

\* C4: whatever the endpoint and the hours, a file last modified before
\* now - hours gives no Diagnosis: not in the list of
\* /analyze/embedded-cluster or /analyze/pod-logs, not as the answer of
\* /analyze/syslog, not among the issues of /analyze/all.
C4_OldFilesExcluded == OldDirectoryFilesExcluded /\ OldSyslogExcluded

\* with a healthy classifier, an unreadable file of the embedded-cluster
\* directories leaves the pass at 200 with every readable file of the window
EmbeddedReadFailureContained ==
  (Served /\ env.failsOn = {} /\ request.endpoint = "/analyze/embedded-cluster") =>
    /\ response.status = 200
    /\ \A i \in FileIds :
         (InEmbeddedDirs(i) /\ ~TooOld(i, request.hours)) =>
           (env.files[i].readable <=>
              \E k \in 1..Len(response.body) :
                response.body[k].filename = <<BaseName(i)>>)

\* the same of the pod log files the request's pattern finds
PodReadFailureContained ==
  (Served /\ env.failsOn = {} /\ request.endpoint = "/analyze/pod-logs") =>
    /\ response.status = 200
    /\ \A i \in Range(GlobPods(PODS_DIR,
                               SearchPattern(request.namespace, request.pod_name))) :
         ~TooOld(i, request.hours) =>
           (env.files[i].readable <=>
              \E k \in 1..Len(response.body) :
                response.body[k].filename[2] = BaseName(i))

\* C5: a file that cannot be read does not abort the pass over its category:
\* the file gives nothing, and every other readable file of the pass that is
\* in the window is analysed and returned.
C5_ReadFailureContained == EmbeddedReadFailureContained /\ PodReadFailureContained

\* the embedded-cluster pass raises: a file of its window cannot be read or
\* analysed, or a journal cannot be analysed
EmbeddedPassRaises(hours) ==
  \/ \E i \in FileIds : InEmbeddedDirs(i) /\ ~TooOld(i, hours) /\ ~Usable(i)
  \/ \E sv \in SpeakingServices : get_journalctl_logs(sv, hours) \in env.failsOn

\* C7: a report lists a category exactly when the call found and analysed a
\* record of it, log_sources_available is the number of categories listed, and
\* a missing syslog or log directory does not make the call fail: it fails
\* only when the embedded-cluster pass raises.
C7_SourcesAnalyzed ==
  /\ IsReport =>
       /\ "embedded-cluster" \in Range(response.body.log_sources_analyzed)
            <=> EmbeddedRecords(request.hours) # {}
       /\ "pods" \in Range(response.body.log_sources_analyzed)
            <=> PodRecords(request.hours) # {}
       /\ "syslog" \in Range(response.body.log_sources_analyzed)
            <=> SyslogRecords # {}
       /\ response.body.system_status.log_sources_available
            = Cardinality(Range(response.body.log_sources_analyzed))
       /\ Len(response.body.log_sources_analyzed)
            = Cardinality(Range(response.body.log_sources_analyzed))
  /\ (Served /\ request.endpoint = "/analyze/all"
        /\ ~EmbeddedPassRaises(request.hours)) => response.status = 200

\* a report over a disk without syslog and without /logs/pods
C7_Witness ==
  /\ IsReport
  /\ ~Exists(PODS_DIR)
  /\ \A i \in FileIds : ~IsSyslog(i)
  /\ response.body.log_sources_analyzed = <<"embedded-cluster">>

\* C10: in every report the records analysed in the call appear exactly once
\* across critical_issues and warnings, each under its source category, so
\* the two counts add up to the number of records analysed.
C10_EachRecordOnce ==
  IsReport =>
    /\ Range(Listed)
         = EmbeddedRecords(request.hours) \cup PodRecords(request.hours) \cup SyslogRecords
    /\ \A j, k \in 1..Len(Listed) : j # k => Listed[j] # Listed[k]
    /\ response.body.system_status.critical_issues_count
         + response.body.system_status.warnings_count
         = Cardinality(EmbeddedRecords(request.hours)) + Cardinality(PodRecords(request.hours))
             + Cardinality(SyslogRecords)

\* a report with records of all three categories on both lists
C10_Witness ==
  /\ IsReport
  /\ Len(response.body.critical_issues) >= 2
  /\ Len(response.body.warnings) >= 2
  /\ {"embedded-cluster", "pods", "syslog"} \subseteq {Listed[k][1] : k \in 1..Len(Listed)}

----------------------------------------------------------------------------
(* Properties of the model_loader functions (checked under SpecFn)        *)

Least(S) == CHOOSE i \in S : \A j \in S : i <= j

\* the catalog entries whose signature occurs in the text
MatchedEntries(text) ==
  {i \in 1..Len(ERROR_PATTERNS) : re_search(ERROR_PATTERNS[i].pattern, lower(text))}

MentionsHelmOrKots(label) ==
  Contains(<<"h","e","l","m">>, lower(label)) \/ Contains(<<"k","o","t","s">>, lower(label))

HelmKotsEntries(text) ==
  {i \in MatchedEntries(text) : MentionsHelmOrKots(ERROR_PATTERNS[i].cause)}

\* C3: analyze_log resolves root_cause to the label of the first matched
\* catalog entry whose label mentions "helm" or "kots" when there is one,
\* else to the label of the first matched entry, else to "Unknown issue".
C3_RootCauseResolution ==
  (ret.fn = "analyze_log" /\ ~ret.value.raised) =>
    ret.value.root_cause =
      IF HelmKotsEntries(arg) # {}
      THEN ERROR_PATTERNS[Least(HelmKotsEntries(arg))].cause
      ELSE IF MatchedEntries(arg) # {}
           THEN ERROR_PATTERNS[Least(MatchedEntries(arg))].cause
           ELSE <<"U","n","k","n","o","w","n"," ","i","s","s","u","e">>

\* a Helm/KOTS entry was preferred over a match earlier in the catalog
C3_Witness ==
  /\ ret.fn = "analyze_log"
  /\ ~ret.value.raised
  /\ \E i, j \in MatchedEntries(arg) :
       /\ i < j
       /\ ~MentionsHelmOrKots(ERROR_PATTERNS[i].cause)
       /\ MentionsHelmOrKots(ERROR_PATTERNS[j].cause)
       /\ ret.value.root_cause = ERROR_PATTERNS[j].cause

KeywordOrder ==
  << <<"h","e","l","m">>, <<"k","o","t","s">>, <<"k","u","b","e","r","n","e","t","e","s">>, <<"n","e","t","w","o","r","k">>, <<"p","e","r","m","i","s","s","i","o","n">>, <<"r","e","s","o","u","r","c","e">> >>

StepsInOrder ==
  << HELM_STEPS, KOTS_STEPS, KUBERNETES_STEPS, NETWORK_STEPS, PERMISSION_STEPS,
     RESOURCE_STEPS >>

KeywordsIn(label) ==
  {k \in 1..Len(KeywordOrder) : Contains(KeywordOrder[k], lower(label))}

\* C8: get_next_steps returns exactly the 4 steps of the first keyword, in the
\* order helm, kots, kubernetes, network, permission, resource, that the label
\* contains case-insensitively, and the generic 4 steps when it contains none.
C8_FirstKeywordWins ==
  ret.fn = "get_next_steps" =>
    /\ Len(ret.value) = 4
    /\ ret.value = IF KeywordsIn(arg) = {} THEN GENERIC_STEPS
                   ELSE StepsInOrder[Least(KeywordsIn(arg))]

\* a label with "network" and "resource" got the network steps alone
C8_Witness ==
  /\ ret.fn = "get_next_steps"
  /\ {4, 6} \subseteq KeywordsIn(arg)
  /\ ret.value = NETWORK_STEPS

IsBlank(line) == \A i \in 1..Len(line) : line[i] \in Whitespace

\* the lines of the text without the empty and whitespace-only ones
NonBlankLines(text) == SelectSeq(re_split(text), LAMBDA l : ~IsBlank(l))

StripEach(lines) == [i \in 1..Len(lines) |-> strip(lines[i])]

RECURSIVE Flatten(_)
Flatten(seqs) ==
  IF seqs = <<>> THEN <<>> ELSE Head(seqs) \o Flatten(Tail(seqs))

\* the windows [i-2, i+2] of the keyword lines i, clipped, in increasing i;
\* all the lines when no line has a keyword
WindowsOf(lines) ==
  LET hits == {i \in 1..Len(lines) : IsErrorLine(lines[i])}
  IN  IF hits = {} THEN lines
      ELSE Flatten([i \in 1..Len(lines) |->
             IF i \in hits
             THEN [k \in 1..(Min(Len(lines), i + 2) - Max(1, i - 2) + 1) |->
                     lines[Max(1, i - 2) + k - 1]]
             ELSE <<>>])

\* C9 as stated: cleaning only drops the empty and whitespace-only lines, and
\* the result is the concatenated windows over these lines (all of them when
\* none has a keyword).
C9_AsStated ==
  ret.fn = "extract_error_context" => ret.value = WindowsOf(NonBlankLines(arg))

\* C9: cleaning drops the empty and whitespace-only lines and strips the
\* leading and trailing whitespace of the lines it keeps; the result is the
\* concatenation, in increasing i, of the clipped windows [i-2, i+2] of the
\* cleaned keyword lines i, duplicates kept, and the whole cleaned sequence
\* when no line has a keyword, so it is empty only when that sequence is.
C9_ContextWindows ==
  ret.fn = "extract_error_context" =>
    /\ ret.value = WindowsOf(StripEach(NonBlankLines(arg)))
    /\ ret.value = <<>> <=> NonBlankLines(arg) = <<>>

\* overlapping windows repeated a line, and a kept line was stripped
C9_Witness ==
  /\ ret.fn = "extract_error_context"
  /\ Len(ret.value) > Len(NonBlankLines(arg))
  /\ StripEach(NonBlankLines(arg)) # NonBlankLines(arg)

\* C6: a failure of the classifier step stays inside analyze_log, which
\* returns the rule-based Diagnosis with the confidence "0.00".
C6_InferenceFailureContained ==
  (ret.fn = "analyze_log" /\ ret.clf.raises) =>
    /\ ~ret.value.raised
    /\ ret.value.confidence = <<"0",".","0","0">>
    /\ ret.value.root_cause = ResolveRootCause(identify_patterns(arg))
    /\ ret.value.next_steps = get_next_steps(ret.value.root_cause)
    /\ ret.value.context = join(extract_error_context(arg))

=============================================================================
